---- MODULE Spec2Model ----
(***************************************************************************)
(* Model of the QGIS shared-projects plugin: the project differ           *)
(* (src/project_differ.py: QGSProjectDiffer, get_layer_position,          *)
(* apply_layer_addition, apply_symbology, apply_project_title,            *)
(* apply_changes).                                                         *)
(*                                                                         *)
(* Two specifications share the variables:                                 *)
(*   Spec       two project documents are edited and compared             *)
(*              (compare_projects);                                        *)
(*   SpecApply  a difference list is applied to the live project, one     *)
(*              difference per step (apply_changes).                       *)
(***************************************************************************)
EXTENDS Integers, Sequences, FiniteSets, TLC

VARIABLES
    hash_seed,          \* the process's string hash seed: fixes set iteration order
    old_content,        \* first argument of compare_projects
    new_content,        \* second argument of compare_projects
    edits,              \* number of edits made to the two documents
    pc,                 \* "edit" | "compared"
    differences,        \* list of ProjectDifference (compare's result, apply's input)
    database_content,   \* apply_changes' reference document text (or None)
    apc,                \* apply_changes: "idle" | "loop" | "returned" | "raised"
    pos,                \* apply_changes: number of differences already iterated
    applied,            \* apply_changes: local `applied`
    applied_changes,    \* apply_changes: local `applied_changes`
    skipped_changes,    \* apply_changes: local `skipped_changes`
    live_layers,        \* host: identifiers of QgsProject.mapLayers(), in order
    live_title,         \* host: QgsProject title
    host_calls,         \* host: log of mutation calls, in call order
    trace,              \* per finished iteration: handled, failed, calls, layers before
    qgis_projects,      \* table qgis_projects: the author of each row, row id = index
    polling_thread,     \* widget's polling_thread: "none" | "running" | "finished"
    running,            \* DatabasePollingThread.running
    last_known_id,      \* DatabasePollingThread.last_known_id
    tpc,                \* position of DatabasePollingThread.run
    new_count,          \* run: local `new_count`
    new_highest_id,     \* run: the MAX(id) read last
    gpc,                \* GUI thread: "idle" | "saved" (inside save_project_with_id)
    new_id,             \* save_project_with_id: local `new_id`
    signals,            \* new_projects_found emissions queued for the GUI thread
    counted,            \* the row ids the last COUNT(*) query counted
    reported            \* the row ids of the counts emitted so far

diffvars  == <<hash_seed, old_content, new_content, edits, pc>>
applyvars == <<database_content, apc, pos, applied, applied_changes,
               skipped_changes, live_layers, live_title, host_calls, trace>>
pollvars  == <<qgis_projects, polling_thread, running, last_known_id, tpc,
               new_count, new_highest_id, gpc, new_id, signals, counted, reported>>
vars == <<hash_seed, old_content, new_content, edits, pc, differences,
          database_content, apc, pos, applied, applied_changes,
          skipped_changes, live_layers, live_title, host_calls, trace,
          qgis_projects, polling_thread, running, last_known_id, tpc,
          new_count, new_highest_id, gpc, new_id, signals, counted, reported>>

-----------------------------------------------------------------------------
(* Bounds of the model                                                     *)

MaxSeed   == 1      \* hash seeds 0..MaxSeed
MaxLayers == 3      \* maplayer nodes per document
MaxX      == 3      \* x siblings per document
MaxEdits  == 2      \* edits made before the comparison
MaxDiffs  == 2      \* length of the difference list handed to apply_changes
MaxRows   == 3      \* rows inserted into qgis_projects

-----------------------------------------------------------------------------
(* xml.etree.ElementTree elements                                          *)

\* The value of an absent element / an absent text (Python None).
None == [tag |-> "", attrs |-> <<>>, text |-> "", children |-> <<>>, tail |-> ""]

Element(tag, attrs, text, children) ==
    [tag |-> tag, attrs |-> attrs, text |-> text, children |-> children, tail |-> ""]

Leaf(tag, text) == Element(tag, <<>>, text, <<>>)

RECURSIVE Flatten(_)
Flatten(ss) == IF ss = <<>> THEN <<>> ELSE Head(ss) \o Flatten(Tail(ss))

\* ET.tostring(e, encoding="unicode"): the element, its attributes, text,
\* children and its tail, as a sequence of tokens. An element without text
\* and children is written in the short form.
RECURSIVE tostring(_)
tostring(e) ==
    LET attrs == Flatten([i \in 1..Len(e.attrs) |-> <<e.attrs[i][1], "=", e.attrs[i][2]>>])
        kids  == Flatten([i \in 1..Len(e.children) |-> tostring(e.children[i])])
        txt   == IF e.text = "" THEN <<>> ELSE <<e.text>>
        tl    == IF e.tail = "" THEN <<>> ELSE <<e.tail>>
    IN  IF e.text = "" /\ e.children = <<>>
        THEN <<"<", e.tag>> \o attrs \o <<"/>">> \o tl
        ELSE <<"<", e.tag>> \o attrs \o <<">">> \o txt \o kids \o <<"</", e.tag, ">">> \o tl

\* Element.find(tag): the first direct child with that tag, or None.
find(e, tag) ==
    IF \E i \in 1..Len(e.children) : e.children[i].tag = tag
    THEN e.children[CHOOSE i \in 1..Len(e.children) :
                        /\ e.children[i].tag = tag
                        /\ \A j \in 1..(i - 1) : e.children[j].tag # tag]
    ELSE None

\* Element.findall(tag): the direct children with that tag, in document order.
findall(e, tag) == SelectSeq(e.children, LAMBDA c : c.tag = tag)

\* Element.get(name, default): the value of an attribute.
get(e, name, default) ==
    IF \E i \in 1..Len(e.attrs) : e.attrs[i][1] = name
    THEN e.attrs[CHOOSE i \in 1..Len(e.attrs) : e.attrs[i][1] = name][2]
    ELSE default

\* All descendants of e (not e itself) in document order.
RECURSIVE Descendants(_)
Descendants(e) ==
    Flatten([i \in 1..Len(e.children) |-> <<e.children[i]>> \o Descendants(e.children[i])])

\* Element.findall('.//tag') and Element.find('.//tag').
findall_deep(e, tag) == SelectSeq(Descendants(e), LAMBDA c : c.tag = tag)
find_deep(e, tag) ==
    IF findall_deep(e, tag) = <<>> THEN None ELSE Head(findall_deep(e, tag))

-----------------------------------------------------------------------------
(* Iteration order of a Python set of strings                              *)

NameTable == <<"title", "projectlayers", "maplayer", "x", "layer-tree-group",
               "layer-tree-layer", "id", "datasource", "layername", "provider",
               "renderer-v2", "symbol", "blendMode", "labeling", "layerOpacity",
               "L1", "L2", "L3", "L4", "qgis">>

\* The empty string hashes to 0 under every seed.
NameIndex(s) == IF s = "" THEN 0 ELSE CHOOSE i \in 1..Len(NameTable) : NameTable[i] = s

\* hash(s) under the process's seed, unique per name: the seeds scatter the
\* names differently.
StrHash(seed, s) ==
    ((NameIndex(s) * (7 * seed + 1)) % (Len(NameTable) + 1)) * (Len(NameTable) + 1)
        + NameIndex(s)

\* The order in which `for s in S` visits the set S.
RECURSIVE SetOrder(_, _)
SetOrder(seed, S) ==
    IF S = {} THEN <<>>
    ELSE LET m == CHOOSE s \in S : \A t \in S : StrHash(seed, s) <= StrHash(seed, t)
         IN  <<m>> \o SetOrder(seed, S \ {m})

-----------------------------------------------------------------------------
(* ChangeType, StructuralChange, ProjectDifference and paths               *)

ADDED    == "added"
REMOVED  == "removed"
MODIFIED == "modified"

\* A path string is the sequence of its segments between the separators.
\* A segment is a tag, or a tag followed by [..]: `bracket` tells whether the
\* brackets hold an integer literal ("int", its value in idx), other text
\* ("text"), or are absent ("none").
Seg(tag)       == [tag |-> tag, bracket |-> "none", idx |-> 0]
SegIdx(tag, i) == [tag |-> tag, bracket |-> "int", idx |-> i]
SegText(tag)   == [tag |-> tag, bracket |-> "text", idx |-> 0]

\* StructuralChange with the two nodes stored in each other's field.
StructuralChange_swapped(element_type, parent_path, old_element, new_element, change_type) ==
    [element_type |-> element_type, parent_path |-> parent_path,
     old_element |-> new_element, new_element |-> old_element,
     change_type |-> change_type]

StructuralChange(element_type, parent_path, old_element, new_element, change_type) ==
    [element_type |-> element_type, parent_path |-> parent_path,
     old_element |-> old_element, new_element |-> new_element,
     change_type |-> change_type]

ProjectDifference(path, change_type, old_value, new_value, description) ==
    [path |-> path, change_type |-> change_type, old_value |-> old_value,
     new_value |-> new_value, description |-> description]

-----------------------------------------------------------------------------
(* QGSProjectDiffer                                                        *)

\* A document text: whether it starts with a <!DOCTYPE declaration, whether
\* the markup is well formed, whether it is written with line breaks and
\* indentation between the elements, and the elements it spells out.
Content(doctype, wellformed, indent, root) ==
    [isnone |-> FALSE, doctype |-> doctype, wellformed |-> wellformed,
     indent |-> indent, root |-> root]

NoneContent == [isnone |-> TRUE, doctype |-> FALSE, wellformed |-> FALSE,
                indent |-> FALSE, root |-> None]

\* The whitespace between the elements of an indented text becomes the text
\* of each parent and the tail of each child; the tail of a last child (less
\* indentation, before the closing tag) differs from its siblings' tails.
RECURSIVE Whitespace(_, _)
Whitespace(e, tail) ==
    [e EXCEPT !.tail = tail,
              !.text = IF e.children # <<>> /\ e.text = "" THEN "nl+" ELSE e.text,
              !.children = [i \in 1..Len(e.children) |->
                               Whitespace(e.children[i],
                                          IF i = Len(e.children) THEN "nl-" ELSE "nl+")]]

\* parse_qgs_content: the leading declaration is dropped, then ET.fromstring;
\* raises on a text that is None or not well formed.
parse_qgs_content(content) ==
    IF content.isnone \/ ~content.wellformed
    THEN [raised |-> TRUE, root |-> None]
    ELSE [raised |-> FALSE,
          root |-> IF content.indent THEN Whitespace(content.root, "") ELSE content.root]

\* ET.tostring(a) != ET.tostring(b)
serialized_differ(a, b) == tostring(a) # tostring(b)

HasId_any_text(layer) == find(layer, "id") # None
HasId(layer) == find(layer, "id") # None /\ find(layer, "id").text # ""

\* The keys of the identifier -> layer mapping of a list of layers.
layer_ids(layers) ==
    {find(layers[i], "id").text : i \in {j \in 1..Len(layers) : HasId(layers[j])}}

\* dict.get(layer_id): the last layer of the list with that identifier, or None.
layer_by_id(layers, layer_id) ==
    LET hits == {i \in 1..Len(layers) :
                    HasId(layers[i]) /\ find(layers[i], "id").text = layer_id}
    IN  IF hits = {} THEN None
        ELSE layers[CHOOSE i \in hits : \A j \in hits : j <= i]

\* layer_change without the comparison of the serialized layers.
layer_change_unchecked(old_layer, new_layer) ==
    IF old_layer # None /\ new_layer # None
    THEN <<StructuralChange("maplayer", <<Seg("projectlayers")>>,
                            old_layer, new_layer, MODIFIED)>>
    ELSE IF old_layer = None /\ new_layer # None
    THEN <<StructuralChange("maplayer", <<Seg("projectlayers")>>,
                            None, new_layer, ADDED)>>
    ELSE IF old_layer # None /\ new_layer = None
    THEN <<StructuralChange("maplayer", <<Seg("projectlayers")>>,
                            old_layer, None, REMOVED)>>
    ELSE <<>>

\* layer_change without the branch of a removed layer.
layer_change_no_removed(old_layer, new_layer) ==
    IF old_layer # None /\ new_layer # None
    THEN IF serialized_differ(old_layer, new_layer)
         THEN <<StructuralChange("maplayer", <<Seg("projectlayers")>>,
                                 old_layer, new_layer, MODIFIED)>>
         ELSE <<>>
    ELSE IF old_layer = None /\ new_layer # None
    THEN <<StructuralChange("maplayer", <<Seg("projectlayers")>>,
                            None, new_layer, ADDED)>>
    ELSE <<>>

\* The body of detect_layer_changes' loop: the changes for one identifier.
layer_change(old_layer, new_layer) ==
    IF old_layer # None /\ new_layer # None
    THEN IF serialized_differ(old_layer, new_layer)
         THEN <<StructuralChange("maplayer", <<Seg("projectlayers")>>,
                                 old_layer, new_layer, MODIFIED)>>
         ELSE <<>>
    ELSE IF old_layer = None /\ new_layer # None
    THEN <<StructuralChange("maplayer", <<Seg("projectlayers")>>,
                            None, new_layer, ADDED)>>
    ELSE IF old_layer # None /\ new_layer = None
    THEN <<StructuralChange("maplayer", <<Seg("projectlayers")>>,
                            old_layer, None, REMOVED)>>
    ELSE <<>>

detect_layer_changes(seed, old_root, new_root) ==
    LET old_layers == findall_deep(old_root, "maplayer")
        new_layers == findall_deep(new_root, "maplayer")
        all_layer_ids == SetOrder(seed, layer_ids(old_layers) \cup layer_ids(new_layers))
    IN  Flatten([k \in 1..Len(all_layer_ids) |->
                    layer_change(layer_by_id(old_layers, all_layer_ids[k]),
                                 layer_by_id(new_layers, all_layer_ids[k]))])

TagsOf(e) == {e.children[i].tag : i \in 1..Len(e.children)}

\* child_path of detect_structural_changes: the path under which the
\* children of a matched pair are compared.
\* child_path without the index of a multi-occurrence group.
child_path_no_index(path, tag, multiple, i) == Append(path, Seg(tag))

child_path(path, tag, multiple, i) ==
    IF multiple THEN Append(path, SegIdx(tag, i)) ELSE Append(path, Seg(tag))

\* The loop over the children of a tag that only one side has (a single
\* child: a side with several takes the positional case).
one_sided_changes_dropped(tag, path, children, change_type) == <<>>

one_sided_changes(tag, path, children, change_type) ==
    [k \in 1..Len(children) |->
        StructuralChange(tag, path,
                         IF change_type = REMOVED THEN children[k] ELSE None,
                         IF change_type = ADDED THEN children[k] ELSE None,
                         change_type)]

RECURSIVE detect_structural_changes(_, _, _, _)
detect_structural_changes(seed, old_element, new_element, path) ==
    LET all_tags == SetOrder(seed, TagsOf(old_element) \cup TagsOf(new_element))
        Pair(tag, old_child, new_child, cpath) ==
            IF serialized_differ(old_child, new_child)
            THEN <<StructuralChange(tag, path, old_child, new_child, MODIFIED)>>
                 \o detect_structural_changes(seed, old_child, new_child, cpath)
            ELSE <<>>
        ForTag(tag) ==
            LET old_children == findall(old_element, tag)
                new_children == findall(new_element, tag)
                max_count == IF Len(old_children) > Len(new_children)
                             THEN Len(old_children) ELSE Len(new_children)
                AtIndex(i) ==
                    LET old_child == IF i < Len(old_children)
                                     THEN old_children[i + 1] ELSE None
                        new_child == IF i < Len(new_children)
                                     THEN new_children[i + 1] ELSE None
                    IN  IF old_child # None /\ new_child # None
                        THEN Pair(tag, old_child, new_child,
                                  child_path(path, tag, TRUE, i))
                        ELSE IF old_child = None /\ new_child # None
                        THEN <<StructuralChange(tag, path, None, new_child, ADDED)>>
                        ELSE IF old_child # None /\ new_child = None
                        THEN <<StructuralChange(tag, path, old_child, None, REMOVED)>>
                        ELSE <<>>
            IN  IF Len(old_children) = 1 /\ Len(new_children) = 1
                THEN Pair(tag, old_children[1], new_children[1],
                          child_path(path, tag, FALSE, 0))
                ELSE IF Len(old_children) > 1 \/ Len(new_children) > 1
                THEN Flatten([k \in 1..max_count |-> AtIndex(k - 1)])
                ELSE IF old_children # <<>> /\ new_children = <<>>
                THEN one_sided_changes(tag, path, old_children, REMOVED)
                ELSE IF new_children # <<>> /\ old_children = <<>>
                THEN one_sided_changes(tag, path, new_children, ADDED)
                ELSE <<>>
    IN  Flatten([t \in 1..Len(all_tags) |-> ForTag(all_tags[t])])

\* The conversion loop of compare_projects: one ProjectDifference per change.
to_difference(change) ==
    ProjectDifference(
        Append(change.parent_path, Seg(change.element_type)),
        change.change_type, change.old_element, change.new_element,
        [verb |-> change.change_type, element_type |-> change.element_type,
         parent_path |-> change.parent_path])

\* compare_roots with the structural changes put before the layer changes.
compare_roots_structural_first(seed, old_root, new_root) ==
    LET all_changes == detect_structural_changes(seed, old_root, new_root, <<>>)
                       \o detect_layer_changes(seed, old_root, new_root)
    IN  [k \in 1..Len(all_changes) |-> to_difference(all_changes[k])]

\* compare_roots reporting a change that both phases found only once.
compare_roots_deduplicated(seed, old_root, new_root) ==
    LET all_changes == detect_layer_changes(seed, old_root, new_root)
                       \o detect_structural_changes(seed, old_root, new_root, <<>>)
        kept[k \in 0..Len(all_changes)] ==
            IF k = 0 THEN <<>>
            ELSE IF \E j \in 1..(k - 1) : all_changes[j] = all_changes[k]
            THEN kept[k - 1]
            ELSE Append(kept[k - 1], all_changes[k])
    IN  [k \in 1..Len(kept[Len(all_changes)]) |->
            to_difference(kept[Len(all_changes)][k])]

\* compare_projects, for two texts that parse.
compare_roots(seed, old_root, new_root) ==
    LET all_changes == detect_layer_changes(seed, old_root, new_root)
                       \o detect_structural_changes(seed, old_root, new_root, <<>>)
    IN  [k \in 1..Len(all_changes) |-> to_difference(all_changes[k])]

\* compare_projects: a parse error of either text propagates.
compare_projects(seed, old_text, new_text) ==
    LET o == parse_qgs_content(old_text)
        n == parse_qgs_content(new_text)
    IN  IF o.raised \/ n.raised
        THEN [raised |-> TRUE, differences |-> <<>>]
        ELSE [raised |-> FALSE, differences |-> compare_roots(seed, o.root, n.root)]

-----------------------------------------------------------------------------
(* Project documents                                                       *)

LayerIds == <<"L1", "L2", "L3", "L4">>

Renderer(style) ==
    Element("renderer-v2", <<<<"type", "singleSymbol">>>>, "", <<Leaf("symbol", style)>>)

\* A <maplayer> as QGIS writes it.
MapLayer(type, id, layername, style) ==
    Element("maplayer", <<<<"type", type>>>>, "",
            <<Leaf("id", id), Leaf("datasource", "data.gpkg"),
              Leaf("layername", layername), Leaf("provider", "ogr"), Renderer(style)>>)

TreeLayer(id) == Element("layer-tree-layer", <<<<"id", id>>>>, "", <<>>)

Reverse(s) == [i \in 1..Len(s) |-> s[Len(s) + 1 - i]]

\* A <qgis> document: title, layer tree (top-most layer first), layers, and
\* nx repeated <x> elements.
Project(title, ids, xs) ==
    Element("qgis", <<>>, "",
            <<Leaf("title", title),
              Element("layer-tree-group", <<>>, "",
                      [i \in 1..Len(ids) |-> TreeLayer(Reverse(ids)[i])]),
              Element("projectlayers", <<>>, "",
                      [i \in 1..Len(ids) |-> MapLayer("vector", ids[i], "roads", "red")])>>
            \o [i \in 1..Len(xs) |-> Leaf("x", xs[i])])

BaseLayers == {<<"L1">>, <<"L1", "L2", "L3">>, <<"L2", "L1", "L3">>, <<"L2", "L3", "L1">>}
BaseXs     == {<<>>, <<"a", "b">>}

\* Replace the first child of e tagged `tag` by c.
WithChild(e, tag, c) ==
    [e EXCEPT !.children = [i \in 1..Len(e.children) |->
        IF e.children[i] = find(e, tag) THEN c ELSE e.children[i]]]

Layers(root) == find(root, "projectlayers").children
WithLayers(root, layers) ==
    WithChild(root, "projectlayers",
              [find(root, "projectlayers") EXCEPT !.children = layers])

Xs(root) == findall(root, "x")
NonXs(root) == SelectSeq(root.children, LAMBDA c : c.tag # "x")
WithXs(root, xs) == [root EXCEPT !.children = NonXs(root) \o xs]

RemoveAt(s, k) == [i \in 1..(Len(s) - 1) |-> IF i < k THEN s[i] ELSE s[i + 1]]

OtherStyle(style) == IF style = "red" THEN "blue" ELSE "red"
OtherText(t) == IF t = "a" THEN "b" ELSE "a"

Restyled(layer) ==
    WithChild(layer, "renderer-v2",
              Renderer(OtherStyle(find(find(layer, "renderer-v2"), "symbol").text)))

-----------------------------------------------------------------------------
(* Specification Spec: a document is edited, then compared with the        *)
(* original                                                                *)

PollIdle ==
    /\ qgis_projects = <<>>
    /\ polling_thread = "none"
    /\ running = FALSE
    /\ last_known_id = 0
    /\ tpc = "off"
    /\ new_count = 0
    /\ new_highest_id = 0
    /\ gpc = "idle"
    /\ new_id = 0
    /\ signals = <<>>
    /\ counted = {}
    /\ reported = {}

ApplyIdle ==
    /\ database_content = NoneContent
    /\ apc = "idle"
    /\ pos = 0
    /\ applied = FALSE
    /\ applied_changes = 0
    /\ skipped_changes = 0
    /\ live_layers = <<>>
    /\ live_title = ""
    /\ host_calls = <<>>
    /\ trace = <<>>

Init ==
    /\ hash_seed \in 0..MaxSeed
    /\ \E ids \in BaseLayers, xs \in BaseXs, indent \in BOOLEAN :
          /\ old_content = Content(TRUE, TRUE, indent, Project("Project A", ids, xs))
          /\ new_content = old_content
    /\ edits = 0
    /\ pc = "edit"
    /\ differences = <<>>
    /\ ApplyIdle
    /\ PollIdle

\* An edit replaces the elements of the new document.
Edit(root) ==
    /\ pc = "edit"
    /\ edits < MaxEdits
    /\ new_content' = [new_content EXCEPT !.root = root]
    /\ edits' = edits + 1
    /\ UNCHANGED <<hash_seed, old_content, pc, differences>>
    /\ UNCHANGED applyvars
    /\ UNCHANGED pollvars

AppendLayer ==
    \E k \in 1..Len(LayerIds) :
        /\ Len(Layers(new_content.root)) < MaxLayers
        /\ LayerIds[k] \notin layer_ids(Layers(new_content.root))
        /\ Edit(WithLayers(new_content.root,
                           Append(Layers(new_content.root),
                                  MapLayer("vector", LayerIds[k], "roads", "red"))))

\* A layer whose id element is empty: no entity for the identity matcher.
AppendUnidentifiedLayer ==
    /\ Len(Layers(new_content.root)) < MaxLayers
    /\ \A k \in 1..Len(Layers(new_content.root)) : HasId(Layers(new_content.root)[k])
    /\ Edit(WithLayers(new_content.root,
                       Append(Layers(new_content.root),
                              MapLayer("vector", "", "roads", "red"))))

RemoveLayer ==
    \E k \in 1..Len(Layers(new_content.root)) :
        Edit(WithLayers(new_content.root, RemoveAt(Layers(new_content.root), k)))

RestyleLayer ==
    \E k \in 1..Len(Layers(new_content.root)) :
        Edit(WithLayers(new_content.root,
                        [Layers(new_content.root) EXCEPT
                            ![k] = Restyled(Layers(new_content.root)[k])]))

AppendX ==
    \E t \in {"a", "b"} :
        /\ Len(Xs(new_content.root)) < MaxX
        /\ Edit(WithXs(new_content.root, Append(Xs(new_content.root), Leaf("x", t))))

ModifyX ==
    \E k \in 1..Len(Xs(new_content.root)) :
        Edit(WithXs(new_content.root,
                    [Xs(new_content.root) EXCEPT
                        ![k] = Leaf("x", OtherText(Xs(new_content.root)[k].text))]))

Retitle ==
    /\ find(new_content.root, "title").text = "Project A"
    /\ Edit(WithChild(new_content.root, "title", Leaf("title", "Project B")))

\* check_project_differences(current_content, database_content)
CompareProjects ==
    /\ pc = "edit"
    /\ ~compare_projects(hash_seed, old_content, new_content).raised
    /\ differences' = compare_projects(hash_seed, old_content, new_content).differences
    /\ pc' = "compared"
    /\ UNCHANGED <<hash_seed, old_content, new_content, edits>>
    /\ UNCHANGED applyvars
    /\ UNCHANGED pollvars

Next ==
    \/ AppendLayer
    \/ AppendUnidentifiedLayer
    \/ RemoveLayer
    \/ RestyleLayer
    \/ AppendX
    \/ ModifyX
    \/ Retitle
    \/ CompareProjects

Spec == Init /\ [][Next]_vars

-----------------------------------------------------------------------------
(* The host application (QgsProject) as the apply functions use it         *)

\* What the host does during one difference: every call succeeds ("ok"),
\* the first host operation raises ("raise"), the operation reports failure
\* (layer.isValid() / readSymbology() false: "fail"), or the layer tree
\* insertion raises after the layer was added to the project ("late").
Faults == {"ok", "raise", "fail", "late"}

HostCall(op, id, position, payload, text) ==
    [op |-> op, id |-> id, position |-> position, payload |-> payload, text |-> text]

\* Result of a handler: its return value, whether a host operation failed in
\* it (an exception was caught or a failure reported), the host mutation
\* calls it made and the host state it leaves.
Outcome(ret, failed, calls, layers, title) ==
    [ret |-> ret, failed |-> failed, calls |-> calls, layers |-> layers, title |-> title]

IndexOf(s, x) == CHOOSE i \in 1..Len(s) : s[i] = x /\ \A j \in 1..(i - 1) : s[j] # x
Contains(s, x) == \E i \in 1..Len(s) : s[i] = x

apply_project_title(new_title, layers, title, fault) ==
    IF fault = "raise"
    THEN Outcome("None", TRUE, <<>>, layers, title)
    ELSE Outcome("None", FALSE, <<HostCall("setTitle", "", 0, None, new_title)>>,
                 layers, new_title)

\* get_layer_position returning the 1-based rank in the layer tree.
get_layer_position_one_based(new_maplayer_element, content) ==
    LET id_elem == find(new_maplayer_element, "id")
        parsed == parse_qgs_content(content)
        layer_tree == find_deep(parsed.root, "layer-tree-group")
        tree_layers == findall(layer_tree, "layer-tree-layer")
        hits == {i \in 1..Len(tree_layers) : get(tree_layers[i], "id", "") = id_elem.text}
    IN  IF id_elem = None \/ id_elem.text = "" THEN 0
        ELSE IF parsed.raised THEN 0
        ELSE IF layer_tree = None THEN 0
        ELSE IF hits # {} THEN CHOOSE i \in hits : \A j \in hits : i <= j
        ELSE 0

get_layer_position(new_maplayer_element, content) ==
    LET id_elem == find(new_maplayer_element, "id")
        parsed == parse_qgs_content(content)
        layer_tree == find_deep(parsed.root, "layer-tree-group")
        tree_layers == findall(layer_tree, "layer-tree-layer")
        hits == {i \in 1..Len(tree_layers) : get(tree_layers[i], "id", "") = id_elem.text}
    IN  IF id_elem = None \/ id_elem.text = "" THEN 0
        ELSE IF parsed.raised THEN 0
        ELSE IF layer_tree = None THEN 0
        ELSE IF hits # {} THEN (CHOOSE i \in hits : \A j \in hits : i <= j) - 1
        ELSE 0

\* project.mapLayer(layer_id) is truthy
layer_exists_never(layers, layer_id) == FALSE
layer_exists(layers, layer_id) == Contains(layers, layer_id)

\* layername == "Pointer Positions"
is_pointer_layer_typo(layername) == layername = "Pointer Position"
is_pointer_layer(layername) == layername = "Pointer Positions"

apply_layer_addition(new_maplayer_element, position, layers, title, fault) ==
    LET layer_type == get(new_maplayer_element, "type", "vector")
        datasource_elem == find(new_maplayer_element, "datasource")
        layername_elem == find(new_maplayer_element, "layername")
        provider_elem == find(new_maplayer_element, "provider")
        id_elem == find(new_maplayer_element, "id")
        layername == IF layername_elem.text = "" THEN "New Layer" ELSE layername_elem.text
        layer_id == IF id_elem # None THEN id_elem.text ELSE "unknown"
        create == HostCall(IF layer_type = "vector" THEN "QgsVectorLayer"
                           ELSE "QgsRasterLayer", layer_id, 0, None, layername)
        add == HostCall("addMapLayer", layer_id, 0, None, "")
        insert == HostCall("insertLayer", layer_id, position, None, "")
    IN  IF fault = "raise"
        THEN Outcome("None", TRUE, <<>>, layers, title)
        ELSE IF datasource_elem = None \/ layername_elem = None \/ provider_elem = None
        THEN Outcome("None", FALSE, <<>>, layers, title)
        ELSE IF is_pointer_layer(layername)
        THEN Outcome("True", FALSE, <<>>, layers, title)
        ELSE IF layer_exists(layers, layer_id)
        THEN Outcome("None", FALSE, <<>>, layers, title)
        ELSE IF layer_type \notin {"vector", "raster"}
        THEN Outcome("None", FALSE, <<>>, layers, title)
        ELSE IF fault = "fail"
        THEN Outcome("None", TRUE, <<create>>, layers, title)
        ELSE IF fault = "late"
        THEN Outcome("None", TRUE, <<create, add>>, Append(layers, layer_id), title)
        ELSE Outcome("None", FALSE, <<create, add, insert>>,
                     Append(layers, layer_id), title)

apply_symbology(layer_index, new_maplayer_element, layers, title, fault) ==
    IF fault = "raise" THEN Outcome("None", TRUE, <<>>, layers, title)
    ELSE IF layer_index >= Len(layers) THEN Outcome("None", FALSE, <<>>, layers, title)
    ELSE Outcome("None", fault = "fail",
                 <<HostCall("readSymbology", layers[layer_index + 1], layer_index,
                            new_maplayer_element, "")>>,
                 layers, title)

-----------------------------------------------------------------------------
(* apply_changes                                                           *)

\* diff.path.split(SEP)[-1] and SEP.join(diff.path.split(SEP)[:-1])
element_type_of(path) == IF path = <<>> THEN Seg("") ELSE path[Len(path)]
parent_path_of(path) == IF path = <<>> THEN <<>> ELSE SubSeq(path, 1, Len(path) - 1)

\* "maplayer[" in parent_path
has_maplayer_index(parent_path) ==
    \E i \in 1..Len(parent_path) :
        parent_path[i].tag = "maplayer" /\ parent_path[i].bracket # "none"

\* The segment whose brackets parent_path.split("maplayer[")[1].split("]")[0] reads.
maplayer_index_segment(parent_path) ==
    parent_path[CHOOSE i \in 1..Len(parent_path) :
                    /\ parent_path[i].tag = "maplayer" /\ parent_path[i].bracket # "none"
                    /\ \A j \in 1..(i - 1) :
                          ~(parent_path[j].tag = "maplayer" /\ parent_path[j].bracket # "none")]

\* "title" in diff.path: the tags of the model that contain the word.
TitleTags == {"title"}
contains_title(path) == \E i \in 1..Len(path) : path[i].tag \in TitleTags

StyleTags_lower_case == {"renderer-v2", "labeling", "blendmode", "layeropacity"}
StyleTags == {"renderer-v2", "labeling", "blendMode", "layerOpacity"}

\* The payload of the styling call: a copy of the reference layer with its
\* first renderer-v2 removed and the new renderer appended.
maplayer_copy(db_layer_element, new_renderer) ==
    LET old_renderer == find(db_layer_element, "renderer-v2")
        kept == IF old_renderer = None THEN db_layer_element.children
                ELSE RemoveAt(db_layer_element.children,
                              IndexOf(db_layer_element.children, old_renderer))
    IN  [db_layer_element EXCEPT !.children = Append(kept, new_renderer)]

\* current_layers.index(target_layer)
live_index_one_based(layers, layer_id) == IndexOf(layers, layer_id)
live_index(layers, layer_id) == IndexOf(layers, layer_id) - 1

\* The try block of the renderer-v2 branch: every exception in it is caught.
reconstruct_and_apply(diff, layer_index, content, layers, title, fault) ==
    LET parsed == parse_qgs_content(content)
        maplayers == findall_deep(parsed.root, "maplayer")
        db_layer_element == maplayers[layer_index + 1]
        db_layer_id_elem == find(db_layer_element, "id")
        idle == Outcome("None", FALSE, <<>>, layers, title)
    IN  IF parsed.raised THEN [idle EXCEPT !.failed = TRUE]
        ELSE IF ~(layer_index < Len(maplayers)) THEN idle
        ELSE IF db_layer_id_elem = None \/ db_layer_id_elem.text = "" THEN idle
        ELSE IF fault = "raise" THEN [idle EXCEPT !.failed = TRUE]
        ELSE IF ~Contains(layers, db_layer_id_elem.text) THEN idle
        ELSE apply_symbology(live_index(layers, db_layer_id_elem.text),
                             maplayer_copy(db_layer_element, diff.new_value),
                             layers, title, IF fault = "late" THEN "ok" ELSE fault)

\* What one pass of the loop of apply_changes did: an exception left the
\* loop (raised), or the difference was handled or not.
Step(raised, handled, o) ==
    [raised |-> raised, handled |-> handled, failed |-> o.failed, calls |-> o.calls,
     layers |-> o.layers, title |-> o.title]

\* The body of the loop of apply_changes up to `if not handled`.
apply_one(diff, content, layers, title, fault) ==
    LET element_type == element_type_of(diff.path)
        parent_path == parent_path_of(diff.path)
        nothing == Outcome("None", FALSE, <<>>, layers, title)
    IN  IF diff.change_type = ADDED /\ diff.new_value # None
        THEN IF element_type = Seg("maplayer") /\ parent_path = <<Seg("projectlayers")>>
             THEN Step(FALSE, TRUE,
                       apply_layer_addition(diff.new_value,
                                            get_layer_position(diff.new_value, content),
                                            layers, title, fault))
             ELSE Step(FALSE, FALSE, nothing)
        ELSE IF diff.change_type = MODIFIED /\ diff.new_value # None
        THEN IF element_type.bracket = "none" /\ element_type.tag \in StyleTags
             THEN IF /\ element_type = Seg("renderer-v2")
                     /\ has_maplayer_index(parent_path)
                     /\ ~content.isnone
                  THEN IF maplayer_index_segment(parent_path).bracket # "int"
                       THEN Step(TRUE, FALSE, nothing)
                       ELSE Step(FALSE, TRUE,
                                 reconstruct_and_apply(
                                     diff, maplayer_index_segment(parent_path).idx,
                                     content, layers, title, fault))
                  ELSE Step(FALSE, TRUE, nothing)
             ELSE Step(FALSE, FALSE, nothing)
        ELSE IF /\ diff.change_type = MODIFIED
                /\ contains_title(diff.path) /\ diff.new_value # None
        THEN IF diff.new_value.text # ""
             THEN Step(FALSE, TRUE,
                       apply_project_title(diff.new_value.text, layers, title, fault))
             ELSE Step(FALSE, FALSE, nothing)
        ELSE Step(FALSE, FALSE, nothing)

\* applied = True, in every branch that handles the difference
mark_applied_last(was_applied, handled) == handled
mark_applied(was_applied, handled) == was_applied \/ handled

\* if not handled: skipped_changes += 1
count_skipped_never(skipped, handled) == skipped
count_skipped_always(skipped, handled) == skipped + 1
count_skipped(skipped, handled) == IF ~handled THEN skipped + 1 ELSE skipped

-----------------------------------------------------------------------------
(* Specification SpecApply: apply_changes(differences, database_content)   *)

\* The reference document of the runs: layers L1, L2 and L3 (the layer tree
\* lists them top-most first: L3, L2, L1), titled "Project B".
ReferenceRoot == Project("Project B", <<"L1", "L2", "L3">>, <<>>)

DatabaseContents ==
    {NoneContent,
     Content(TRUE, FALSE, FALSE, None),
     Content(TRUE, TRUE, FALSE, Element("qgis", <<>>, "", <<Leaf("title", "Project B")>>)),
     Content(TRUE, TRUE, FALSE, ReferenceRoot)}

LiveLayers == {<<"L1">>, <<"L3", "L1">>}

Difference(path, change_type, old_value, new_value) ==
    ProjectDifference(path, change_type, old_value, new_value,
                      [verb |-> change_type,
                       element_type |-> element_type_of(path).tag,
                       parent_path |-> parent_path_of(path)])

LayersPath == <<Seg("projectlayers"), Seg("maplayer")>>
RendererPath(seg) == <<Seg("projectlayers"), seg, Seg("renderer-v2")>>

\* The difference records a list is drawn from: records as compare_projects
\* builds them and hand-built ones.
DiffPool ==
    { Difference(<<Seg("title")>>, MODIFIED,
                 Leaf("title", "Project A"), Leaf("title", "Project B")),
      Difference(LayersPath, ADDED, None, MapLayer("vector", "L2", "roads", "red")),
      Difference(LayersPath, ADDED, None,
                 MapLayer("vector", "L4", "Pointer Positions", "red")),
      Difference(LayersPath, ADDED, None, MapLayer("vector", "L1", "roads", "red")),
      Difference(LayersPath, ADDED, None, MapLayer("vector", "", "roads", "red")),
      Difference(LayersPath, REMOVED, MapLayer("vector", "L1", "roads", "red"), None),
      Difference(<<Seg("x")>>, ADDED, None, Leaf("x", "a")),
      Difference(<<Seg("projectlayers")>>, MODIFIED,
                 Element("projectlayers", <<>>, "", <<>>),
                 Element("projectlayers", <<>>, "", <<Leaf("x", "a")>>)),
      Difference(RendererPath(SegIdx("maplayer", 0)), MODIFIED,
                 Renderer("red"), Renderer("blue")),
      Difference(RendererPath(Seg("maplayer")), MODIFIED,
                 Renderer("red"), Renderer("blue")),
      Difference(RendererPath(SegText("maplayer")), MODIFIED,
                 Renderer("red"), Renderer("blue")),
      Difference(<<Seg("projectlayers"), SegIdx("maplayer", 0), Seg("blendMode")>>,
                 MODIFIED, Leaf("blendMode", "0"), Leaf("blendMode", "6")),
      Difference(<<Seg("projectlayers"), SegIdx("maplayer", 0), Seg("labeling")>>,
                 MODIFIED, Leaf("labeling", "simple"), Leaf("labeling", "rule-based")),
      Difference(<<Seg("projectlayers"), Seg("maplayer"), Seg("layerOpacity")>>,
                 MODIFIED, Leaf("layerOpacity", "1"), Leaf("layerOpacity", "0.5")) }

RECURSIVE ListsUpTo(_, _)
ListsUpTo(S, n) ==
    IF n = 0 THEN {<<>>}
    ELSE ListsUpTo(S, n - 1)
         \cup {Append(l, d) : l \in {m \in ListsUpTo(S, n - 1) : Len(m) = n - 1}, d \in S}

InitApply ==
    /\ hash_seed = 0
    /\ old_content = NoneContent
    /\ new_content = NoneContent
    /\ edits = 0
    /\ pc = "apply"
    /\ differences \in ListsUpTo(DiffPool, MaxDiffs)
    /\ database_content \in DatabaseContents
    /\ apc = "idle"
    /\ pos = 0
    /\ applied = FALSE
    /\ applied_changes = 0
    /\ skipped_changes = 0
    /\ live_layers \in LiveLayers
    /\ live_title = "Project A"
    /\ host_calls = <<>>
    /\ trace = <<>>
    /\ PollIdle

\* Lines 484-486: the call and its initialisation.
ApplyChangesBegin ==
    /\ apc = "idle"
    /\ apc' = "loop"
    /\ pos' = 0
    /\ applied' = FALSE
    /\ applied_changes' = 0
    /\ skipped_changes' = 0
    /\ UNCHANGED <<differences, database_content, live_layers, live_title,
                   host_calls, trace>>
    /\ UNCHANGED diffvars
    /\ UNCHANGED pollvars

\* One pass of `for diff in differences`.
ApplyChangesIteration ==
    /\ apc = "loop"
    /\ pos < Len(differences)
    /\ \E fault \in Faults :
          LET r == apply_one(differences[pos + 1], database_content,
                             live_layers, live_title, fault)
          IN  IF r.raised
              THEN /\ apc' = "raised"
                   /\ UNCHANGED <<pos, applied, applied_changes, skipped_changes,
                                  live_layers, live_title, host_calls, trace>>
              ELSE /\ apc' = "loop"
                   /\ pos' = pos + 1
                   /\ applied' = mark_applied(applied, r.handled)
                   /\ applied_changes' = IF r.handled THEN applied_changes + 1
                                         ELSE applied_changes
                   /\ skipped_changes' = count_skipped(skipped_changes, r.handled)
                   /\ live_layers' = r.layers
                   /\ live_title' = r.title
                   /\ host_calls' = host_calls \o r.calls
                   /\ trace' = Append(trace, [handled |-> r.handled, failed |-> r.failed,
                                              calls |-> r.calls,
                                              before |-> live_layers])
    /\ UNCHANGED <<differences, database_content>>
    /\ UNCHANGED diffvars
    /\ UNCHANGED pollvars

\* Lines 587-588: the loop is over, the call returns `applied`.
ApplyChangesReturn ==
    /\ apc = "loop"
    /\ pos = Len(differences)
    /\ apc' = "returned"
    /\ UNCHANGED <<differences, database_content, pos, applied, applied_changes,
                   skipped_changes, live_layers, live_title, host_calls, trace>>
    /\ UNCHANGED diffvars
    /\ UNCHANGED pollvars

NextApply ==
    \/ ApplyChangesBegin
    \/ ApplyChangesIteration
    \/ ApplyChangesReturn

SpecApply == InitApply /\ [][NextApply]_vars

-----------------------------------------------------------------------------
(* The polling thread and the widget's auto-save (specification SpecPoll)  *)

\* Everything but the table, the two threads and the signal queue is idle.
PollFrame ==
    /\ UNCHANGED diffvars
    /\ UNCHANGED differences
    /\ UNCHANGED applyvars

InitPoll ==
    /\ hash_seed = 0
    /\ old_content = NoneContent
    /\ new_content = NoneContent
    /\ edits = 0
    /\ pc = "poll"
    /\ differences = <<>>
    /\ ApplyIdle
    /\ PollIdle

\* SELECT COUNT(*) FROM qgis_projects WHERE id > %s
rows_after(table, id) == {i \in 1..Len(table) : i > id}

\* SELECT COALESCE(MAX(id), 0) FROM qgis_projects
max_id(table) == Len(table)

\* toggle_polling, checkbox checked: a new thread object is started.
TogglePollingOn ==
    /\ gpc = "idle"
    /\ polling_thread = "none"
    /\ polling_thread' = "running"
    /\ running' = FALSE
    /\ last_known_id' = 0
    /\ tpc' = "init"
    /\ UNCHANGED <<qgis_projects, new_count, new_highest_id, gpc, new_id,
                   signals, counted, reported>>
    /\ PollFrame

\* toggle_polling, checkbox unchecked: polling_thread.stop().
TogglePollingOff ==
    /\ gpc = "idle"
    /\ polling_thread = "running"
    /\ running' = FALSE
    /\ UNCHANGED <<qgis_projects, polling_thread, last_known_id, tpc, new_count,
                   new_highest_id, gpc, new_id, signals, counted, reported>>
    /\ PollFrame

\* run: the initial MAX(id) query; an exception resets last_known_id to 0.
PollInitialQuery ==
    /\ tpc = "init"
    /\ \E ok \in BOOLEAN :
          IF ok
          THEN /\ new_highest_id' = max_id(qgis_projects)
               /\ tpc' = "init_store"
               /\ UNCHANGED <<last_known_id, running>>
          ELSE /\ last_known_id' = 0
               /\ running' = TRUE
               /\ tpc' = "sleep"
               /\ UNCHANGED new_highest_id
    /\ UNCHANGED <<qgis_projects, polling_thread, new_count, gpc, new_id,
                   signals, counted, reported>>
    /\ PollFrame

\* run: self.last_known_id = cur.fetchone()[0]; self.running = True.
PollInitialStore ==
    /\ tpc = "init_store"
    /\ last_known_id' = new_highest_id
    /\ running' = TRUE
    /\ tpc' = "sleep"
    /\ UNCHANGED <<qgis_projects, polling_thread, new_count, new_highest_id, gpc,
                   new_id, signals, counted, reported>>
    /\ PollFrame

\* run: the loop test, the sleep and the test after it.
PollWake ==
    /\ tpc = "sleep"
    /\ IF running
       THEN tpc' = "count" /\ UNCHANGED polling_thread
       ELSE tpc' = "off" /\ polling_thread' = "finished"
    /\ UNCHANGED <<qgis_projects, running, last_known_id, new_count,
                   new_highest_id, gpc, new_id, signals, counted, reported>>
    /\ PollFrame

\* run: the COUNT(*) query with the last_known_id of that moment; an
\* exception of the pass is printed and the loop goes on.
PollCount ==
    /\ tpc = "count"
    /\ \E ok \in BOOLEAN :
          IF ok
          THEN /\ counted' = rows_after(qgis_projects, last_known_id)
               /\ new_count' = Cardinality(rows_after(qgis_projects, last_known_id))
               /\ tpc' = IF rows_after(qgis_projects, last_known_id) # {}
                         THEN "max" ELSE "sleep"
          ELSE /\ tpc' = "sleep"
               /\ UNCHANGED <<counted, new_count>>
    /\ UNCHANGED <<qgis_projects, polling_thread, running, last_known_id,
                   new_highest_id, gpc, new_id, signals, reported>>
    /\ PollFrame

\* run: the MAX(id) query after a positive count.
PollMax ==
    /\ tpc = "max"
    /\ new_highest_id' = max_id(qgis_projects)
    /\ tpc' = "store"
    /\ UNCHANGED <<qgis_projects, polling_thread, running, last_known_id, new_count,
                   gpc, new_id, signals, counted, reported>>
    /\ PollFrame

\* run: self.last_known_id = new_highest_id.
PollStore ==
    /\ tpc = "store"
    /\ last_known_id' = new_highest_id
    /\ tpc' = "emit"
    /\ UNCHANGED <<qgis_projects, polling_thread, running, new_count, new_highest_id,
                   gpc, new_id, signals, counted, reported>>
    /\ PollFrame

\* run: self.new_projects_found.emit(new_count), queued for the GUI thread.
PollEmit ==
    /\ tpc = "emit"
    /\ signals' = Append(signals, new_count)
    /\ reported' = reported \cup counted
    /\ tpc' = "sleep"
    /\ UNCHANGED <<qgis_projects, polling_thread, running, last_known_id, new_count,
                   new_highest_id, gpc, new_id, counted>>
    /\ PollFrame

\* save_project_with_id: INSERT ... RETURNING id and the commit. The row is
\* marked "auto-save" when the polling thread is running at the insert.
SaveInsert ==
    /\ gpc = "idle"
    /\ Len(qgis_projects) < MaxRows
    /\ qgis_projects' = Append(qgis_projects,
                               IF polling_thread = "running"
                               THEN "auto-save" ELSE "save")
    /\ new_id' = Len(qgis_projects) + 1
    /\ gpc' = "saved"
    /\ UNCHANGED <<polling_thread, running, last_known_id, tpc, new_count,
                   new_highest_id, signals, counted, reported>>
    /\ PollFrame

\* save_project_with_id: the update of the polling thread after the commit.
SaveUpdate ==
    /\ gpc = "saved"
    /\ last_known_id' = IF polling_thread = "running" THEN new_id ELSE last_known_id
    /\ gpc' = "idle"
    /\ UNCHANGED <<qgis_projects, polling_thread, running, tpc, new_count,
                   new_highest_id, new_id, signals, counted, reported>>
    /\ PollFrame

\* Another user's client inserts a row of the project.
OtherInsert ==
    /\ Len(qgis_projects) < MaxRows
    /\ qgis_projects' = Append(qgis_projects, "other")
    /\ UNCHANGED <<polling_thread, running, last_known_id, tpc, new_count,
                   new_highest_id, gpc, new_id, signals, counted, reported>>
    /\ PollFrame

\* on_new_projects_found, run by the GUI thread for a queued emission.
OnNewProjectsFound ==
    /\ gpc = "idle"
    /\ signals # <<>>
    /\ signals' = Tail(signals)
    /\ UNCHANGED <<qgis_projects, polling_thread, running, last_known_id, tpc,
                   new_count, new_highest_id, gpc, new_id, counted, reported>>
    /\ PollFrame

NextPoll ==
    \/ TogglePollingOn
    \/ TogglePollingOff
    \/ PollInitialQuery
    \/ PollInitialStore
    \/ PollWake
    \/ PollCount
    \/ PollMax
    \/ PollStore
    \/ PollEmit
    \/ SaveInsert
    \/ SaveUpdate
    \/ OtherInsert
    \/ OnNewProjectsFound

SpecPoll == InitPoll /\ [][NextPoll]_vars

-----------------------------------------------------------------------------
(* Properties of compare_projects (specification Spec)                     *)

IdOf(e) == find(e, "id").text

\* C1: comparing a document with itself yields an empty difference list:
\* neither detect_layer_changes nor detect_structural_changes emits a change
\* when both inputs are the same document.
C1_SelfCompareEmpty ==
    LET root == parse_qgs_content(new_content).root
    IN  /\ detect_layer_changes(hash_seed, root, root) = <<>>
        /\ detect_structural_changes(hash_seed, root, root, <<>>) = <<>>
        /\ compare_projects(hash_seed, new_content, new_content)
              = [raised |-> FALSE, differences |-> <<>>]
        /\ (pc = "compared" /\ old_content = new_content) => differences = <<>>

C1_Witness == pc = "compared" /\ old_content = new_content /\ edits > 0

FlipKind(kind) == IF kind = ADDED THEN REMOVED ELSE IF kind = REMOVED THEN ADDED ELSE kind

Core(d) == [path |-> d.path, change_type |-> d.change_type,
            old_value |-> d.old_value, new_value |-> d.new_value]

MirrorOf(d) == [path |-> d.path, change_type |-> FlipKind(d.change_type),
                old_value |-> d.new_value, new_value |-> d.old_value]

Occurrences(ds, c) == Cardinality({i \in 1..Len(ds) : Core(ds[i]) = c})

\* C2: the difference list of compare_projects(B, A) is the mirror of that
\* of compare_projects(A, B): same length, and each record has as many
\* counterparts (same path, Added and Removed flipped, old and new values
\* swapped) in the other list as it has occurrences in its own.
C2_Mirror ==
    pc = "compared" =>
        LET back == compare_projects(hash_seed, new_content, old_content).differences
        IN  /\ Len(back) = Len(differences)
            /\ \A i \in 1..Len(differences) :
                  Occurrences(back, MirrorOf(differences[i]))
                      = Occurrences(differences, Core(differences[i]))

C2_Witness ==
    /\ pc = "compared"
    /\ \E i, j, k \in 1..Len(differences) :
          /\ differences[i].change_type = ADDED
          /\ differences[j].change_type = REMOVED
          /\ differences[k].change_type = MODIFIED

\* C3: when the old document has the one layer L1 and the new document is
\* the old one with a layer L2 appended, compare_projects returns exactly one
\* difference: Added, at the path projectlayers/maplayer, with the node of
\* identifier L2 as new value.
C3_AppendYieldsOneAdded ==
    ( /\ pc = "compared"
      /\ Len(Layers(old_content.root)) = 1
      /\ IdOf(Layers(old_content.root)[1]) = "L1"
      /\ new_content =
            [old_content EXCEPT !.root =
                WithLayers(old_content.root,
                           Append(Layers(old_content.root),
                                  MapLayer("vector", "L2", "roads", "red")))] )
    => /\ Len(differences) = 1
       /\ differences[1].change_type = ADDED
       /\ differences[1].path = LayersPath
       /\ IdOf(differences[1].new_value) = "L2"

\* C4: when the new document is the old one with the layer L1 removed,
\* compare_projects returns exactly one difference, Removed with the node of
\* identifier L1 as old value, wherever L1 sat among its siblings.
C4_RemoveYieldsOneRemoved ==
    \A k \in 1..Len(Layers(old_content.root)) :
        ( /\ pc = "compared"
          /\ IdOf(Layers(old_content.root)[k]) = "L1"
          /\ new_content =
                [old_content EXCEPT !.root =
                    WithLayers(old_content.root,
                               RemoveAt(Layers(old_content.root), k))] )
        => /\ Len(differences) = 1
           /\ differences[1].change_type = REMOVED
           /\ IdOf(differences[1].old_value) = "L1"

\* C5: for siblings all tagged x, old [x0, x1] against new [x0, x1, x2]
\* yields exactly one difference, Added with a path ending in x[2]; old
\* [x0, x1] against new [x0', x1] yields exactly one difference, Modified
\* with a path ending in x[0].
C5_IndexedPath ==
    ( pc = "compared" /\ Len(Xs(old_content.root)) = 2 ) =>
        /\ ( \E t \in {"a", "b"} :
                new_content =
                    [old_content EXCEPT !.root =
                        WithXs(old_content.root,
                               Append(Xs(old_content.root), Leaf("x", t)))] )
           => /\ Len(differences) = 1
              /\ differences[1].change_type = ADDED
              /\ element_type_of(differences[1].path) = SegIdx("x", 2)
        /\ ( new_content =
                [old_content EXCEPT !.root =
                    WithXs(old_content.root,
                           [Xs(old_content.root) EXCEPT
                               ![1] = Leaf("x", OtherText(Xs(old_content.root)[1].text))])] )
           => /\ Len(differences) = 1
              /\ differences[1].change_type = MODIFIED
              /\ element_type_of(differences[1].path) = SegIdx("x", 0)

-----------------------------------------------------------------------------
(* Properties of apply_changes (specification SpecApply)                   *)

Handled == {k \in 1..Len(trace) : trace[k].handled}
Skipped == {k \in 1..Len(trace) : ~trace[k].handled}

IsTitleModification(d) ==
    /\ d.change_type = MODIFIED
    /\ contains_title(d.path)
    /\ d.new_value # None
    /\ d.new_value.text = "Project B"

\* C6: a Modified record whose path contains the title segment and whose
\* new node has the text "Project B" makes apply_changes call the host's
\* setTitle exactly once, with "Project B", and count the record as applied,
\* so that the call returns true.
C6_TitleApplied ==
    /\ \A k \in 1..Len(trace) :
          (IsTitleModification(differences[k]) /\ ~trace[k].failed)
          => /\ trace[k].handled
             /\ trace[k].calls = <<HostCall("setTitle", "", 0, None, "Project B")>>
    /\ ( /\ apc = "returned"
         /\ \E k \in 1..Len(differences) : IsTitleModification(differences[k]) )
       => applied

IsLayerAddition(d) ==
    d.change_type = ADDED /\ d.new_value # None /\ d.path = LayersPath

IsPointerAddition(d) ==
    /\ IsLayerAddition(d)
    /\ find(d.new_value, "layername").text = "Pointer Positions"

\* C7: an addition of a layer named "Pointer Positions" under projectlayers
\* causes no host mutation call and is counted as applied, not as skipped.
C7_PointerLayerNoEffect ==
    /\ \A k \in 1..Len(trace) :
          IsPointerAddition(differences[k])
          => trace[k].handled /\ trace[k].calls = <<>>
    /\ applied_changes = Cardinality(Handled)
    /\ applied = (Handled # {})
    /\ ( /\ \A k \in 1..Len(differences) : IsPointerAddition(differences[k]) )
       => host_calls = <<>> /\ skipped_changes = 0

C7_Witness ==
    /\ apc = "returned"
    /\ Len(differences) = MaxDiffs
    /\ IsPointerAddition(differences[1])
    /\ applied_changes = MaxDiffs

\* The apply policies: addition of a layer under projectlayers, Modified on
\* one of the style tags, modification of the title.
MatchesPolicy(d) ==
    \/ d.change_type = ADDED /\ d.path = LayersPath
    \/ /\ d.change_type = MODIFIED
       /\ element_type_of(d.path).tag \in StyleTags
    \/ d.change_type = MODIFIED /\ contains_title(d.path)

\* C8: a difference that matches none of the apply policies increases the
\* skipped count by one, causes no host mutation call and does not make
\* apply_changes raise; Removed differences and Added differences of tags
\* other than maplayer are among them.
C8_UnmatchedSkipped ==
    /\ \A k \in 1..Len(trace) :
          ~MatchesPolicy(differences[k])
          => ~trace[k].handled /\ trace[k].calls = <<>>
    /\ \A k \in 1..Len(trace) :
          ( \/ differences[k].change_type = REMOVED
            \/ /\ differences[k].change_type = ADDED
               /\ element_type_of(differences[k].path).tag # "maplayer" )
          => ~trace[k].handled /\ trace[k].calls = <<>>
    /\ skipped_changes = Cardinality(Skipped)
    /\ apc = "raised" => MatchesPolicy(differences[pos + 1])

C8_Witness ==
    /\ apc = "returned"
    /\ \E j, k \in 1..Len(differences) :
          /\ differences[j].change_type = REMOVED
          /\ differences[k].change_type = ADDED
          /\ ~MatchesPolicy(differences[k])
    /\ skipped_changes = MaxDiffs

\* C9: apply_changes never aborts: whatever the difference list and the
\* failures of the host, the loop reaches every difference and the call
\* returns without raising.
C9_NeverAborts == apc # "raised"

\* C10: a difference whose host operation fails (the create/insert, styling
\* or set-title call raises or reports failure, or the reference document
\* cannot be parsed) is counted as skipped, not as applied.
C10_FailedCountedSkipped ==
    \A k \in 1..Len(trace) : trace[k].failed => ~trace[k].handled

\* C11: apply_changes returns true exactly when the applied count it ends
\* with is at least 1, that is when at least one difference was handled (the
\* differences applied as no-ops included); for an empty list and for a list
\* of which every difference is skipped it returns false.
C11_ReturnsTrueIffApplied ==
    apc = "returned"
    => /\ applied = (applied_changes >= 1)
       /\ applied = (\E k \in 1..Len(trace) : trace[k].handled)
       /\ differences = <<>> => ~applied
       /\ skipped_changes = Len(differences) => ~applied

C11_Witness ==
    /\ apc = "returned"
    /\ Len(trace) = MaxDiffs
    /\ trace[1].handled
    /\ ~trace[MaxDiffs].handled
    /\ applied
    /\ applied_changes = 1

\* The entities of a tree: the maplayer nodes, anywhere, with a non-empty id.
Entities(root) ==
    LET layers == findall_deep(root, "maplayer")
    IN  {layers[i] : i \in {j \in 1..Len(layers) : IdOf(layers[j]) # ""}}

EntityChange(old_layer, new_layer, kind) ==
    StructuralChange("maplayer", <<Seg("projectlayers")>>, old_layer, new_layer, kind)

\* C12: for each identifier of the union of the identifiers of the entities
\* of the two trees, detect_layer_changes emits exactly one change when the
\* entity is in the old tree only (Removed), in the new tree only (Added) or
\* in both with unequal serialized nodes (Modified), none when the two nodes
\* serialize equally; and it emits nothing else.
C12_OneChangePerIdentifier ==
    pc = "compared" =>
        LET old_root == parse_qgs_content(old_content).root
            new_root == parse_qgs_content(new_content).root
            changes == detect_layer_changes(hash_seed, old_root, new_root)
            olds == Entities(old_root)
            news == Entities(new_root)
            Expected(layer_id) ==
                LET o == {e \in olds : IdOf(e) = layer_id}
                    n == {e \in news : IdOf(e) = layer_id}
                IN  IF n = {} THEN {EntityChange(e, None, REMOVED) : e \in o}
                    ELSE IF o = {} THEN {EntityChange(None, e, ADDED) : e \in n}
                    ELSE {EntityChange(e, f, MODIFIED) :
                            <<e, f>> \in {p \in o \X n : tostring(p[1]) # tostring(p[2])}}
            expected == UNION {Expected(IdOf(e)) : e \in olds \cup news}
        IN  /\ {changes[k] : k \in 1..Len(changes)} = expected
            /\ Len(changes) = Cardinality(expected)
            /\ \A e \in olds \cup news : Cardinality(Expected(IdOf(e))) <= 1

C12_Witness ==
    /\ pc = "compared"
    /\ LET old_root == parse_qgs_content(old_content).root
           new_root == parse_qgs_content(new_content).root
           changes == detect_layer_changes(hash_seed, old_root, new_root)
       IN  /\ \E i, j \in 1..Len(changes) :
                 /\ changes[i].change_type = REMOVED
                 /\ changes[j].change_type = MODIFIED
           /\ \E e \in Entities(old_root) : e \in Entities(new_root)
           /\ \E k \in 1..Len(Layers(new_content.root)) : ~HasId(Layers(new_content.root)[k])

\* C13: the order of the entity changes is deterministic: every run of
\* detect_layer_changes on the same pair of documents returns the entity
\* changes in the same order, whatever the order in which the process
\* iterates the union of the identifiers.
C13_DeterministicOrder ==
    LET old_root == parse_qgs_content(old_content).root
        new_root == parse_qgs_content(new_content).root
    IN  \A seed \in 0..MaxSeed :
            detect_layer_changes(seed, old_root, new_root)
                = detect_layer_changes(hash_seed, old_root, new_root)

IsPrefix(p, q) == Len(p) <= Len(q) /\ SubSeq(q, 1, Len(p)) = p

Front(p) == SubSeq(p, 1, Len(p) - 1)

\* The difference d is the record of the change c.
RecordOf(d, c) ==
    /\ d.change_type = c.change_type
    /\ d.old_value = c.old_element
    /\ d.new_value = c.new_element
    /\ Front(d.path) = c.parent_path
    /\ d.path[Len(d.path)] = Seg(c.element_type)

\* C14: the list of compare_projects holds exactly one ProjectDifference per
\* StructuralChange; the changes of the identity matcher come before those of
\* the structural differ; the structural changes are in recursive pre-order:
\* the Modified record of a node precedes every record of its descendants,
\* which follow it without a record of another subtree in between.
C14_OrderOfDifferences ==
    pc = "compared" =>
        LET old_root == parse_qgs_content(old_content).root
            new_root == parse_qgs_content(new_content).root
            lc == detect_layer_changes(hash_seed, old_root, new_root)
            sc == detect_structural_changes(hash_seed, old_root, new_root, <<>>)
        IN  /\ Len(differences) = Len(lc) + Len(sc)
            /\ \A k \in 1..Len(lc) : RecordOf(differences[k], lc[k])
            /\ \A k \in 1..Len(sc) : RecordOf(differences[Len(lc) + k], sc[k])
            /\ \A j \in 1..Len(sc) :
                  sc[j].parent_path # <<>>
                  => \E i \in 1..(j - 1) :
                        /\ sc[i].change_type = MODIFIED
                        /\ sc[i].parent_path = Front(sc[j].parent_path)
                        /\ sc[i].element_type
                              = sc[j].parent_path[Len(sc[j].parent_path)].tag
                        /\ \A m \in (i + 1)..j :
                              IsPrefix(sc[j].parent_path, sc[m].parent_path)

C14_Witness ==
    /\ pc = "compared"
    /\ \E i, j, k \in 1..Len(differences) :
          /\ i < j /\ j < k
          /\ differences[i].path = <<Seg("projectlayers"), Seg("maplayer")>>
          /\ differences[i].change_type = ADDED
          /\ differences[j].path = <<Seg("projectlayers")>>
          /\ Len(differences[k].path) = 3
    /\ \E j, k \in 1..Len(differences) :
          /\ j < k
          /\ Len(differences[j].path) = 3
          /\ Len(differences[k].path) = 2

\* The ordering list of a reference document: the identifiers referenced by
\* the layer-tree-layer children of its layer tree, top-most first; empty when
\* the text is missing or unparseable or holds no layer tree.
OrderingList(content) ==
    IF content.isnone \/ ~content.wellformed THEN <<>>
    ELSE LET groups == findall_deep(content.root, "layer-tree-group")
             refs == IF groups = <<>> THEN <<>>
                     ELSE findall(groups[1], "layer-tree-layer")
         IN  [i \in 1..Len(refs) |-> get(refs[i], "id", "")]

\* C15: get_layer_position returns a position and never raises: the 0-based
\* position of the entity's identifier in the ordering list of the reference
\* document when the identifier is listed there, 0 in every other case (no
\* identifier, identifier not listed, no ordering list, reference text
\* missing or unparseable).
C15_LayerPosition ==
    \A k \in 1..Len(differences) :
        differences[k].new_value # None =>
            LET layer_id == IdOf(differences[k].new_value)
                order == OrderingList(database_content)
                position == get_layer_position(differences[k].new_value,
                                               database_content)
            IN  /\ position \in 0..Len(order)
                /\ IF layer_id # "" /\ Contains(order, layer_id)
                   THEN /\ position < Len(order)
                        /\ order[position + 1] = layer_id
                        /\ \A j \in 1..position : order[j] # layer_id
                   ELSE position = 0

C15_Witness ==
    /\ apc = "returned"
    /\ \E k \in 1..Len(trace) :
          /\ get_layer_position(differences[k].new_value, database_content) = 1
          /\ \E c \in 1..Len(trace[k].calls) :
                /\ trace[k].calls[c].op = "insertLayer"
                /\ trace[k].calls[c].position = 1
    /\ \E k \in 1..Len(trace) :
          /\ differences[k].change_type = ADDED
          /\ differences[k].path = LayersPath
          /\ ~Contains(OrderingList(database_content), IdOf(differences[k].new_value))

CallsOf(calls, ops) == {c \in 1..Len(calls) : calls[c].op \in ops}

\* C16: for an Added maplayer under projectlayers that is not the pointer
\* layer, apply_changes makes the host create and insert the layer at most
\* once, the insertion at the position returned by get_layer_position, and
\* makes no create or insert call when a live layer has the identifier.
C16_AdditionAtMostOnce ==
    \A k \in 1..Len(trace) :
        (IsLayerAddition(differences[k]) /\ ~IsPointerAddition(differences[k])) =>
            LET calls == trace[k].calls
                layer == differences[k].new_value
            IN  /\ Cardinality(CallsOf(calls, {"QgsVectorLayer", "QgsRasterLayer"})) <= 1
                /\ Cardinality(CallsOf(calls, {"addMapLayer"})) <= 1
                /\ Cardinality(CallsOf(calls, {"insertLayer"})) <= 1
                /\ \A c \in 1..Len(calls) :
                      /\ calls[c].op \in {"QgsVectorLayer", "QgsRasterLayer",
                                          "addMapLayer", "insertLayer"}
                      /\ calls[c].id = IdOf(layer)
                /\ \A c \in CallsOf(calls, {"insertLayer"}) :
                      calls[c].position = get_layer_position(layer, database_content)
                /\ Contains(trace[k].before, IdOf(layer)) => calls = <<>>

C16_Witness ==
    /\ apc = "returned"
    /\ \E j, k \in 1..Len(trace) :
          /\ j < k
          /\ differences[j] = differences[k]
          /\ IsLayerAddition(differences[j]) /\ ~IsPointerAddition(differences[j])
          /\ CallsOf(trace[j].calls, {"insertLayer"}) # {}
          /\ trace[j].calls[3].position > 0
          /\ trace[k].calls = <<>>

\* A Modified renderer-v2 whose parent path holds maplayer[i].
IsIndexedRendererChange(d) ==
    /\ d.change_type = MODIFIED /\ d.new_value # None
    /\ Len(d.path) >= 2
    /\ d.path[Len(d.path)] = Seg("renderer-v2")
    /\ \E i \in 1..(Len(d.path) - 1) :
          d.path[i].tag = "maplayer" /\ d.path[i].bracket = "int"

IndexIn(d) ==
    d.path[CHOOSE i \in 1..(Len(d.path) - 1) :
               d.path[i].tag = "maplayer" /\ d.path[i].bracket = "int"].idx

\* The entities of the reference document, in document order.
ReferenceEntities(content) ==
    IF content.isnone \/ ~content.wellformed THEN <<>>
    ELSE findall_deep(content.root, "maplayer")

\* The node e with the renderer r in place of its own.
WithRenderer(e, r) ==
    [e EXCEPT !.children =
        SelectSeq(e.children, LAMBDA c : c.tag # "renderer-v2") \o <<r>>]

IsNoOpStyleChange(d, content) ==
    /\ d.change_type = MODIFIED /\ d.new_value # None
    /\ d.path # <<>>
    /\ d.path[Len(d.path)].bracket = "none"
    /\ \/ d.path[Len(d.path)].tag \in {"labeling", "blendMode", "layerOpacity"}
       \/ /\ d.path[Len(d.path)].tag = "renderer-v2"
          /\ \/ content.isnone
             \/ \A i \in 1..(Len(d.path) - 1) :
                   ~(d.path[i].tag = "maplayer" /\ d.path[i].bracket # "none")

\* C18: a Modified difference on labeling, blendMode or layerOpacity is
\* counted as applied (the applied count grows by one and apply_changes
\* returns true) without any host mutation call; so is a Modified
\* renderer-v2 whose parent path holds no positional index, or for which no
\* reference document is given.
C18_StyleChangesCountedNoOp ==
    /\ \A k \in 1..Len(trace) :
          IsNoOpStyleChange(differences[k], database_content)
          => trace[k].handled /\ trace[k].calls = <<>> /\ ~trace[k].failed
    /\ \A k \in 1..Len(trace) :
          IsNoOpStyleChange(differences[k], database_content)
          => applied /\ applied_changes >= 1
    /\ (\A k \in 1..Len(differences) :
           IsNoOpStyleChange(differences[k], database_content))
       => /\ host_calls = <<>>
          /\ applied_changes = Len(trace)
          /\ skipped_changes = 0

C18_Witness ==
    /\ apc = "returned"
    /\ applied
    /\ applied_changes = MaxDiffs
    /\ host_calls = <<>>
    /\ \E j, k \in 1..Len(differences) :
          /\ differences[j].path[Len(differences[j].path)].tag = "renderer-v2"
          /\ IsNoOpStyleChange(differences[j], database_content)
          /\ differences[k].path[Len(differences[k].path)].tag # "renderer-v2"
          /\ IsNoOpStyleChange(differences[k], database_content)

\* The kind of a change agrees with the presence of its two nodes.
KindAgrees(kind, old, new) ==
    /\ kind \in {ADDED, REMOVED, MODIFIED}
    /\ kind = ADDED => old = None /\ new # None
    /\ kind = REMOVED => old # None /\ new = None
    /\ kind = MODIFIED => old # None /\ new # None /\ tostring(old) # tostring(new)

\* C19: every StructuralChange of the two detectors and every
\* ProjectDifference of compare_projects has a kind that agrees with its
\* nodes: Added has no old node and a new node, Removed an old node and no
\* new node, Modified both nodes, of unequal serialized forms.
C19_KindAgreesWithNodes ==
    pc = "compared" =>
        LET old_root == parse_qgs_content(old_content).root
            new_root == parse_qgs_content(new_content).root
            lc == detect_layer_changes(hash_seed, old_root, new_root)
            sc == detect_structural_changes(hash_seed, old_root, new_root, <<>>)
        IN  /\ \A k \in 1..Len(lc) :
                  KindAgrees(lc[k].change_type, lc[k].old_element, lc[k].new_element)
            /\ \A k \in 1..Len(sc) :
                  KindAgrees(sc[k].change_type, sc[k].old_element, sc[k].new_element)
            /\ \A k \in 1..Len(differences) :
                  KindAgrees(differences[k].change_type,
                             differences[k].old_value, differences[k].new_value)

C19_Witness ==
    /\ pc = "compared"
    /\ \E i, j, k \in 1..Len(differences) :
          /\ differences[i].change_type = ADDED
          /\ differences[i].path = <<Seg("x")>>
          /\ differences[j].change_type = REMOVED
          /\ differences[j].path = LayersPath
          /\ differences[k].change_type = MODIFIED
          /\ differences[k].path = <<Seg("projectlayers")>>

Min(a, b) == IF a < b THEN a ELSE b

\* The pairs of same-tag children of two nodes that are matched: the sole
\* child of the tag on each side, or the children at the same index of a
\* group in which a side has several; seg is the path segment of the pair.
MatchedPairs(old, new) ==
    UNION { LET o == findall(old, tag)
                n == findall(new, tag)
            IN  IF Len(o) = 1 /\ Len(n) = 1
                THEN {[tag |-> tag, seg |-> Seg(tag), old |-> o[1], new |-> n[1]]}
                ELSE {[tag |-> tag, seg |-> SegIdx(tag, i - 1), old |-> o[i], new |-> n[i]] :
                        i \in 1..Min(Len(o), Len(n))}
          : tag \in TagsOf(old) \cup TagsOf(new) }

\* The Modified records due: one per matched pair of unequal serialized
\* forms, and those of the pairs below it.
RECURSIVE ModifiedDue(_, _, _)
ModifiedDue(old, new, path) ==
    UNION { IF tostring(p.old) # tostring(p.new)
            THEN {StructuralChange(p.tag, path, p.old, p.new, MODIFIED)}
                 \cup ModifiedDue(p.old, p.new, Append(path, p.seg))
            ELSE {}
          : p \in MatchedPairs(old, new) }

\* The extended paths of the matched pairs of unequal serialized forms.
RECURSIVE DifferingPaths(_, _, _)
DifferingPaths(old, new, path) ==
    UNION { IF tostring(p.old) # tostring(p.new)
            THEN {Append(path, p.seg)}
                 \cup DifferingPaths(p.old, p.new, Append(path, p.seg))
            ELSE {}
          : p \in MatchedPairs(old, new) }

\* C20: in detect_structural_changes a matched pair of same-tag children
\* yields a Modified record exactly when the serialized forms of the two
\* differ, and changes of its descendants are emitted only then, under the
\* path extended by the tag (with [index] for a multi-occurrence group); a
\* pair of equal serialized forms contributes no record at any depth.
C20_ModifiedIffSerializedDiffer ==
    pc = "compared" =>
        LET old_root == parse_qgs_content(old_content).root
            new_root == parse_qgs_content(new_content).root
            sc == detect_structural_changes(hash_seed, old_root, new_root, <<>>)
        IN  /\ {sc[k] : k \in {j \in 1..Len(sc) : sc[j].change_type = MODIFIED}}
                  = ModifiedDue(old_root, new_root, <<>>)
            /\ \A k \in 1..Len(sc) :
                  sc[k].parent_path # <<>>
                  => sc[k].parent_path \in DifferingPaths(old_root, new_root, <<>>)
            /\ \A p \in MatchedPairs(old_root, new_root) :
                  tostring(p.old) = tostring(p.new)
                  => \A k \in 1..Len(sc) :
                        /\ ~IsPrefix(<<p.seg>>, sc[k].parent_path)
                        /\ ~(sc[k].old_element = p.old /\ sc[k].new_element = p.new)

C20_Witness ==
    /\ pc = "compared"
    /\ LET old_root == parse_qgs_content(old_content).root
           new_root == parse_qgs_content(new_content).root
           sc == detect_structural_changes(hash_seed, old_root, new_root, <<>>)
       IN  /\ \E k \in 1..Len(sc) :
                 /\ Len(sc[k].parent_path) = 2
                 /\ sc[k].parent_path[2].bracket = "int"
                 /\ sc[k].change_type = MODIFIED
           /\ \E p \in MatchedPairs(find(old_root, "projectlayers"),
                                    find(new_root, "projectlayers")) :
                 p.seg.bracket = "int" /\ tostring(p.old) = tostring(p.new)
           /\ \E p \in MatchedPairs(old_root, new_root) :
                 p.seg.bracket = "none" /\ tostring(p.old) = tostring(p.new)

\* The children without a positional counterpart: those of the longer side
\* of a tag beyond the count of the other side; seg is the path segment an
\* extended path would give them.
UnmatchedChildren(old, new) ==
    UNION { LET o == findall(old, tag)
                n == findall(new, tag)
                Segment(i) == IF Len(o) > 1 \/ Len(n) > 1
                              THEN SegIdx(tag, i - 1) ELSE Seg(tag)
            IN  {[tag |-> tag, seg |-> Segment(i), index |-> i, kind |-> ADDED,
                  old |-> None, new |-> n[i]] : i \in (Len(o) + 1)..Len(n)}
                \cup
                {[tag |-> tag, seg |-> Segment(i), index |-> i, kind |-> REMOVED,
                  old |-> o[i], new |-> None] : i \in (Len(n) + 1)..Len(o)}
          : tag \in TagsOf(old) \cup TagsOf(new) }

\* The unmatched children of the two trees, each with the path of its
\* parent: those of the roots and those below the matched pairs of unequal
\* serialized forms.
RECURSIVE UnmatchedDue(_, _, _)
UnmatchedDue(old, new, path) ==
    {[path |-> path, child |-> u] : u \in UnmatchedChildren(old, new)}
    \cup UNION { IF tostring(p.old) # tostring(p.new)
                 THEN UnmatchedDue(p.old, p.new, Append(path, p.seg))
                 ELSE {}
               : p \in MatchedPairs(old, new) }

\* C21: in detect_structural_changes each child without a positional
\* counterpart on the other side (its index exceeds the other side's count
\* for its tag, the count 0 included) yields exactly one change, Added when
\* it is on the new side and Removed when it is on the old side, and no
\* change is emitted for any of its descendants.
C21_UnmatchedChildOneChange ==
    pc = "compared" =>
        LET old_root == parse_qgs_content(old_content).root
            new_root == parse_qgs_content(new_content).root
            sc == detect_structural_changes(hash_seed, old_root, new_root, <<>>)
            due == UnmatchedDue(old_root, new_root, <<>>)
            one_sided == {k \in 1..Len(sc) : sc[k].change_type # MODIFIED}
        IN  /\ Cardinality(one_sided) = Cardinality(due)
            /\ \A d \in due :
                  \E k \in one_sided :
                      sc[k] = StructuralChange(d.child.tag, d.path, d.child.old,
                                               d.child.new, d.child.kind)
            /\ \A d \in due : \A k \in 1..Len(sc) :
                  ~IsPrefix(Append(d.path, d.child.seg), sc[k].parent_path)

C21_Witness ==
    /\ pc = "compared"
    /\ LET old_root == parse_qgs_content(old_content).root
           new_root == parse_qgs_content(new_content).root
           due == UnmatchedDue(old_root, new_root, <<>>)
       IN  /\ \E d \in due :
                 /\ d.child.kind = ADDED /\ d.child.tag = "maplayer"
                 /\ d.child.seg.bracket = "int" /\ d.child.index > 1
                 /\ d.child.new.children # <<>>
           /\ \E d \in due :
                 /\ d.child.tag = "x" /\ d.child.seg = Seg("x")
                 /\ findall(old_root, "x") = <<>>

\* The positions at which the entities container of both documents holds an
\* entity of the same identifier with unequal serialized nodes.
ModifiedInPlace(old_root, new_root) ==
    LET o == findall(find(old_root, "projectlayers"), "maplayer")
        n == findall(find(new_root, "projectlayers"), "maplayer")
    IN  {i \in 1..Min(Len(o), Len(n)) :
            /\ IdOf(o[i]) # "" /\ IdOf(o[i]) = IdOf(n[i])
            /\ tostring(o[i]) # tostring(n[i])}

C23_AppliedPlusSkipped ==
    /\ apc # "idle" => applied_changes + skipped_changes = pos
    /\ apc # "idle" => pos = Len(trace)
    /\ apc = "returned" => applied_changes + skipped_changes = Len(differences)
    /\ Handled \cap Skipped = {}
    /\ Handled \cup Skipped = 1..Len(trace)

C23_Witness ==
    /\ apc = "returned"
    /\ Len(differences) = MaxDiffs
    /\ applied_changes >= 1
    /\ skipped_changes >= 1
    /\ applied_changes + skipped_changes = MaxDiffs
    /\ host_calls # <<>>

\* C24: while the polling thread is running, a row inserted by the widget's
\* own auto-save is never reported as new: no count the poller emits with
\* new_projects_found covers an auto-saved row.
C24_OwnRowNeverReported ==
    \A id \in reported : qgis_projects[id] # "auto-save"

\* C24, second part: last_known_id never decreases.
C24_LastKnownIdNeverDecreases == [][last_known_id' >= last_known_id]_vars

====
